---- MODULE Spec2Model ----
(***************************************************************************)
(* A model of the mazegame crate: Square (a cell with four walls and an    *)
(* id), Maze (a grid of squares addressed by offset = y * cols + x), the   *)
(* wall carver Maze::carve, the direction picker and the growing-tree      *)
(* generator behind Maze::generate_perfect and Maze::generate, the room    *)
(* placer Maze::make_rooms and the renderer Maze::print.                   *)
(*                                                                         *)
(* The specifications share the variables:                                 *)
(*   Spec        the program of lib.rs run in its two-integer form:        *)
(*               Maze::new, then generate_perfect, one loop turn a step,   *)
(*               then the unwrap of its result (SpecLive: the same, run    *)
(*               to its end);                                              *)
(*   SpecCarve   a caller that builds a Maze and calls carve with          *)
(*               arbitrary arguments, as tests::test_carver does;          *)
(*   SpecSquare  a caller that builds one Square and breaks and builds     *)
(*               its walls, as the tests of square/mod.rs do;              *)
(*   SpecPick    a caller that carves corridors and asks pick_direction,   *)
(*               as tests::test_direction_picker does;                     *)
(*   SpecRooms   Maze::new, then make_rooms, one loop turn a step;         *)
(*   SpecGen     the program of lib.rs run in its seven-integer form:      *)
(*               Maze::new, then generate (make_rooms, then the generator  *)
(*               from (0, 0)), then the unwrap of its result;              *)
(*   SpecOrigin  Maze::new, then the generator started at any cell;        *)
(*   SpecRender  a caller that builds a Maze, calls carve and prints it;   *)
(*   SpecApi     a caller of the public functions of Maze in any order:    *)
(*               carve, generate_perfect or generate, print.               *)
(***************************************************************************)
EXTENDS Integers, Sequences, FiniteSets, TLC

VARIABLES
    maze,       \* the Maze: [rows, cols, num_rooms, sq], sq indexed from 0
    pc,         \* where the caller is: "ready", "loop", "returned",
                \* "generated", "rooms", "placed", "panic"
    visited,    \* generator_growing_tree: the stack of Coord
    cur_coord,  \* generator_growing_tree: the current Coord
    last,       \* the last call made and what it returned
    pre,        \* the Maze as it was when the last call was made
    ncalls,     \* the number of carve calls the caller has made
    square,     \* SpecSquare: the Square under test
    presquare,  \* SpecSquare: the Square as it was before the last call
    count,      \* generator_growing_tree: carve steps, pushes and pops so far
    mk          \* make_rooms: its arguments, loop index, next id and samples

vars == <<maze, pc, visited, cur_coord, last, pre, ncalls, square, presquare,
          count, mk>>

----------------------------------------------------------------------------
(* Bounds of the model *)

MaxRows == 3
MaxCols == 3
MaxCarveCalls == 2
MaxPickCarves == 4
MaxRoomRows == 5
MaxRoomCols == 4
MaxRoomCount == 2
MaxRoomSize == 2
MaxGenRows == 3
MaxGenCols == 4
MaxGenRooms == 2
MaxApiCarves == 1
MaxApiCoord == 1
MaxApiRooms == 1

----------------------------------------------------------------------------
(* constants.rs *)

DIR_NORTH == 0
DIR_SOUTH == 1
DIR_EAST == 2
DIR_WEST == 3
NUM_DIRECTIONS == 4
ID_MAZE_PATH == -1
ID_UNCARVED == 0

\* A direction value no arm of a match names (tests::test_break_wall uses 17).
BAD_DIR == 17

----------------------------------------------------------------------------
(* maze/square/mod.rs: Square.  wall_present[d + 1] is the Rust            *)
(* wall_present[d]: TLA+ tuples count from 1.                              *)

Square_new == [wall_present |-> <<TRUE, TRUE, TRUE, TRUE>>, id |-> 0]

\* A copy-and-paste slip: the SOUTH arm writes the EAST flag as well.
set_wall_state_fallthrough(s, dir, state) ==
    CASE dir = DIR_NORTH -> [s EXCEPT !.wall_present[DIR_NORTH + 1] = state]
      [] dir = DIR_SOUTH -> [s EXCEPT !.wall_present[DIR_SOUTH + 1] = state,
                                      !.wall_present[DIR_EAST + 1] = state]
      [] dir = DIR_EAST  -> [s EXCEPT !.wall_present[DIR_EAST + 1] = state]
      [] dir = DIR_WEST  -> [s EXCEPT !.wall_present[DIR_WEST + 1] = state]
      [] OTHER -> s

\* A slip: the default arm writes the WEST flag instead of ignoring the
\* request.
set_wall_state_default_west(s, dir, state) ==
    CASE dir = DIR_NORTH -> [s EXCEPT !.wall_present[DIR_NORTH + 1] = state]
      [] dir = DIR_SOUTH -> [s EXCEPT !.wall_present[DIR_SOUTH + 1] = state]
      [] dir = DIR_EAST  -> [s EXCEPT !.wall_present[DIR_EAST + 1] = state]
      [] OTHER -> [s EXCEPT !.wall_present[DIR_WEST + 1] = state]

set_wall_state(s, dir, state) ==
    CASE dir = DIR_NORTH -> [s EXCEPT !.wall_present[DIR_NORTH + 1] = state]
      [] dir = DIR_SOUTH -> [s EXCEPT !.wall_present[DIR_SOUTH + 1] = state]
      [] dir = DIR_EAST  -> [s EXCEPT !.wall_present[DIR_EAST + 1] = state]
      [] dir = DIR_WEST  -> [s EXCEPT !.wall_present[DIR_WEST + 1] = state]
      [] OTHER -> s

build_wall(s, dir) == set_wall_state(s, dir, TRUE)

is_wall_present(s, dir) ==
    CASE dir = DIR_NORTH -> s.wall_present[DIR_NORTH + 1]
      [] dir = DIR_SOUTH -> s.wall_present[DIR_SOUTH + 1]
      [] dir = DIR_EAST  -> s.wall_present[DIR_EAST + 1]
      [] dir = DIR_WEST  -> s.wall_present[DIR_WEST + 1]
      [] OTHER -> FALSE

\* A slip: the wall is toggled instead of removed.
break_wall_toggle(s, dir) == set_wall_state(s, dir, ~is_wall_present(s, dir))

break_wall(s, dir) == set_wall_state(s, dir, FALSE)

\* A slip: the last of the four tests is missing.
is_carved_no_west(s) ==
    IF is_wall_present(s, DIR_NORTH) = FALSE THEN TRUE
    ELSE IF is_wall_present(s, DIR_SOUTH) = FALSE THEN TRUE
    ELSE IF is_wall_present(s, DIR_EAST) = FALSE THEN TRUE
    ELSE FALSE

is_carved(s) ==
    IF is_wall_present(s, DIR_NORTH) = FALSE THEN TRUE
    ELSE IF is_wall_present(s, DIR_SOUTH) = FALSE THEN TRUE
    ELSE IF is_wall_present(s, DIR_EAST) = FALSE THEN TRUE
    ELSE IF is_wall_present(s, DIR_WEST) = FALSE THEN TRUE
    ELSE FALSE

----------------------------------------------------------------------------
(* maze/mod.rs: Maze.  The dimensions of the model keep rows * cols and    *)
(* every offset far below 2^32, so u32 arithmetic is exact here; the one   *)
(* subtraction carve makes, rows - 1 or cols - 1, is reached only after    *)
(* y < rows and x < cols, so it cannot go below zero.                      *)

\* A slip: the vector is sized rows * rows.
Maze_new_square(rows, cols) ==
    [rows |-> rows, cols |-> cols, num_rooms |-> 0,
     sq |-> [i \in 0..(rows * rows - 1) |-> Square_new]]

Maze_new(rows, cols) ==
    [rows |-> rows, cols |-> cols, num_rooms |-> 0,
     sq |-> [i \in 0..(rows * cols - 1) |-> Square_new]]

get_offset(m, x, y) == y * m.cols + x

\* A slip: the x test is missing.
carve_outside_y_only(m, x, y) == y >= m.rows

\* A slip: the last row and the last column count as outside.
carve_outside_last(m, x, y) == y >= m.rows - 1 \/ x >= m.cols - 1

\* carve, its first two tests: the maze index is invalid.
carve_outside(m, x, y) == y >= m.rows \/ x >= m.cols

NoDest == [ok |-> FALSE, x |-> 0, y |-> 0, dir |-> 0]

\* A slip: the NORTH and SOUTH arms name the wrong wall of the destination.
carve_dest_same_dir(m, x, y, dir) ==
    CASE dir = DIR_NORTH ->
            IF y = 0 THEN [NoDest EXCEPT !.dir = DIR_NORTH]
            ELSE [ok |-> TRUE, x |-> x, y |-> y - 1, dir |-> DIR_NORTH]
      [] dir = DIR_SOUTH ->
            IF y = m.rows - 1 THEN [NoDest EXCEPT !.dir = DIR_SOUTH]
            ELSE [ok |-> TRUE, x |-> x, y |-> y + 1, dir |-> DIR_SOUTH]
      [] dir = DIR_EAST ->
            IF x = m.cols - 1 THEN [NoDest EXCEPT !.dir = DIR_EAST]
            ELSE [ok |-> TRUE, x |-> x + 1, y |-> y, dir |-> DIR_WEST]
      [] dir = DIR_WEST ->
            IF x = 0 THEN [NoDest EXCEPT !.dir = DIR_WEST]
            ELSE [ok |-> TRUE, x |-> x - 1, y |-> y, dir |-> DIR_EAST]
      [] OTHER -> [NoDest EXCEPT !.dir = BAD_DIR]

\* A slip: the edge tests of SOUTH and EAST are off by one.
carve_dest_off_by_one(m, x, y, dir) ==
    CASE dir = DIR_NORTH ->
            IF y = 0 THEN [NoDest EXCEPT !.dir = DIR_NORTH]
            ELSE [ok |-> TRUE, x |-> x, y |-> y - 1, dir |-> DIR_SOUTH]
      [] dir = DIR_SOUTH ->
            IF y = m.rows THEN [NoDest EXCEPT !.dir = DIR_SOUTH]
            ELSE [ok |-> TRUE, x |-> x, y |-> y + 1, dir |-> DIR_NORTH]
      [] dir = DIR_EAST ->
            IF x = m.cols THEN [NoDest EXCEPT !.dir = DIR_EAST]
            ELSE [ok |-> TRUE, x |-> x + 1, y |-> y, dir |-> DIR_WEST]
      [] dir = DIR_WEST ->
            IF x = 0 THEN [NoDest EXCEPT !.dir = DIR_WEST]
            ELSE [ok |-> TRUE, x |-> x - 1, y |-> y, dir |-> DIR_EAST]
      [] OTHER -> [NoDest EXCEPT !.dir = BAD_DIR]

\* A slip: a direction no arm names is taken for WEST.
carve_dest_default_west(m, x, y, dir) ==
    CASE dir = DIR_NORTH ->
            IF y = 0 THEN [NoDest EXCEPT !.dir = DIR_NORTH]
            ELSE [ok |-> TRUE, x |-> x, y |-> y - 1, dir |-> DIR_SOUTH]
      [] dir = DIR_SOUTH ->
            IF y = m.rows - 1 THEN [NoDest EXCEPT !.dir = DIR_SOUTH]
            ELSE [ok |-> TRUE, x |-> x, y |-> y + 1, dir |-> DIR_NORTH]
      [] dir = DIR_EAST ->
            IF x = m.cols - 1 THEN [NoDest EXCEPT !.dir = DIR_EAST]
            ELSE [ok |-> TRUE, x |-> x + 1, y |-> y, dir |-> DIR_WEST]
      [] OTHER ->
            IF x = 0 THEN [NoDest EXCEPT !.dir = DIR_WEST]
            ELSE [ok |-> TRUE, x |-> x - 1, y |-> y, dir |-> DIR_EAST]

\* carve, the match on dir: the square on the other side of the wall and
\* the wall of it that faces back, or no destination (ok = FALSE, dir the
\* arm that refused: a direction, or BAD_DIR for the catch-all arm).
carve_dest(m, x, y, dir) ==
    CASE dir = DIR_NORTH ->
            IF y = 0 THEN [NoDest EXCEPT !.dir = DIR_NORTH]
            ELSE [ok |-> TRUE, x |-> x, y |-> y - 1, dir |-> DIR_SOUTH]
      [] dir = DIR_SOUTH ->
            IF y = m.rows - 1 THEN [NoDest EXCEPT !.dir = DIR_SOUTH]
            ELSE [ok |-> TRUE, x |-> x, y |-> y + 1, dir |-> DIR_NORTH]
      [] dir = DIR_EAST ->
            IF x = m.cols - 1 THEN [NoDest EXCEPT !.dir = DIR_EAST]
            ELSE [ok |-> TRUE, x |-> x + 1, y |-> y, dir |-> DIR_WEST]
      [] dir = DIR_WEST ->
            IF x = 0 THEN [NoDest EXCEPT !.dir = DIR_WEST]
            ELSE [ok |-> TRUE, x |-> x - 1, y |-> y, dir |-> DIR_EAST]
      [] OTHER -> [NoDest EXCEPT !.dir = BAD_DIR]

\* A slip: the carve_out test is the wrong way round.
carve_dest_id_inverted(old, id, carve_out) ==
    IF carve_out = TRUE THEN id ELSE old

\* carve, the id the destination square is left with.
carve_dest_id(old, id, carve_out) ==
    IF carve_out = FALSE THEN id ELSE old

\* carve.  status is "ok" (Ok(())), "err" (Err(..), msg the message) or
\* "panic" (an index past the end of sq); m is the Maze afterwards.
carve(m, x, y, dir, id, carve_out) ==
    IF carve_outside(m, x, y) THEN [status |-> "err", msg |-> "outside", m |-> m]
    ELSE
      LET d == carve_dest(m, x, y, dir) IN
      IF ~d.ok
      THEN [status |-> "err",
            msg |-> IF d.dir = BAD_DIR THEN "direction" ELSE "wall", m |-> m]
      ELSE
        LET o1 == get_offset(m, x, y)
            o2 == get_offset(m, d.x, d.y)
        IN
        IF o1 \notin DOMAIN m.sq
        THEN [status |-> "panic", msg |-> "index", m |-> m]
        ELSE
          LET sq1 == [m.sq EXCEPT ![o1] = [break_wall(@, dir) EXCEPT !.id = id]]
          IN
          IF o2 \notin DOMAIN sq1
          THEN [status |-> "panic", msg |-> "index", m |-> [m EXCEPT !.sq = sq1]]
          ELSE
            LET sq2 == [sq1 EXCEPT ![o2] =
                          [break_wall(@, d.dir) EXCEPT
                              !.id = carve_dest_id(@, id, carve_out)]]
            IN [status |-> "ok", msg |-> "", m |-> [m EXCEPT !.sq = sq2]]

----------------------------------------------------------------------------
(* The caller of SpecCarve: Maze::new, then carve calls with arguments     *)
(* drawn from sets that hold legal and illegal values alike.               *)

Dims == (1..MaxRows) \X (1..MaxCols)

\* A coordinate far outside every grid (tests::test_carver uses 100).
FAR_COORD == 100

\* Coordinates: every column and row of the largest grid, one past it, and
\* one far outside.
CoordArgs == (0..(IF MaxRows > MaxCols THEN MaxRows ELSE MaxCols)) \cup {FAR_COORD}
DirArgs == (0..NUM_DIRECTIONS) \cup {BAD_DIR}
IdArgs == {ID_MAZE_PATH, 1}

NoCall == [op |-> "new", x |-> 0, y |-> 0, dir |-> 0, id |-> 0,
           carve_out |-> FALSE, status |-> "ok", msg |-> "", same |-> FALSE,
           out |-> <<>>]

\* generator_growing_tree has not run: nothing carved, pushed or popped.
NoCount == [carves |-> 0, pushes |-> 0, pops |-> 0]

\* make_rooms has not run: no sample drawn, id is the first room id.
NoSample == [x_pos |-> 0, y_pos |-> 0, x_size |-> 0, y_size |-> 0,
             verdict |-> "none"]

NoRooms == [run |-> <<>>,
            count |-> 0, min_x |-> 0, max_x |-> 0, min_y |-> 0, max_y |-> 0,
            i |-> 0, id |-> 1, rooms |-> <<>>, sample |-> NoSample]

Init ==
    /\ \E d \in Dims : maze = Maze_new(d[1], d[2])
    /\ pc = "ready"
    /\ visited = <<>>
    /\ cur_coord = [x |-> 0, y |-> 0]
    /\ last = NoCall
    /\ pre = maze
    /\ ncalls = 0
    /\ square = Square_new
    /\ presquare = Square_new
    /\ count = NoCount
    /\ mk = NoRooms

CarveCall(x, y, dir, id, carve_out) ==
    /\ pc = "ready"
    /\ ncalls < MaxCarveCalls
    /\ LET r == carve(maze, x, y, dir, id, carve_out) IN
        /\ maze' = r.m
        /\ pc' = IF r.status = "panic" THEN "panic" ELSE "ready"
        /\ last' = [op |-> "carve", x |-> x, y |-> y, dir |-> dir, id |-> id,
                    carve_out |-> carve_out, status |-> r.status, msg |-> r.msg,
                    same |-> /\ last.op = "carve"
                             /\ last.status = "ok"
                             /\ last.x = x /\ last.y = y /\ last.dir = dir
                             /\ last.id = id /\ last.carve_out = carve_out,
                    out |-> <<>>]
    /\ pre' = maze
    /\ ncalls' = ncalls + 1
    /\ UNCHANGED <<visited, cur_coord, square, presquare, count, mk>>

NextCarve ==
    \E x \in CoordArgs, y \in CoordArgs, dir \in DirArgs, id \in IdArgs,
       carve_out \in BOOLEAN : CarveCall(x, y, dir, id, carve_out)

SpecCarve == Init /\ [][NextCarve]_vars

----------------------------------------------------------------------------
(* maze/mod.rs: pick_direction and generator_growing_tree.                 *)

\* v < n - 1 as u32 arithmetic without overflow checks computes it: for
\* n = 0 the subtraction wraps to 2^32 - 1, which every coordinate of the
\* model is below (2^32 is beyond the integers of the model checker, so the
\* wrap is stated by cases).
lt_dec_u32(v, n) == IF n = 0 THEN TRUE ELSE v < n - 1

\* pick_direction aborts: with overflow checks (checked) rows - 1 or
\* cols - 1 overflows; or one of its four reads of sq is past the end.
pick_panics(m, x, y, checked) ==
    \/ y > 0 /\ get_offset(m, x, y - 1) \notin DOMAIN m.sq
    \/ checked /\ m.rows = 0
    \/ lt_dec_u32(y, m.rows) /\ get_offset(m, x, y + 1) \notin DOMAIN m.sq
    \/ checked /\ m.cols = 0
    \/ lt_dec_u32(x, m.cols) /\ get_offset(m, x + 1, y) \notin DOMAIN m.sq
    \/ x > 0 /\ get_offset(m, x - 1, y) \notin DOMAIN m.sq

\* A slip: a direction is offered when the wall the neighbour shares with
\* this cell stands, whether or not the neighbour is carved elsewhere.
pick_candidates_shared_wall(m, x, y) ==
    LET n == IF y > 0
                /\ is_wall_present(m.sq[get_offset(m, x, y - 1)], DIR_SOUTH)
             THEN <<DIR_NORTH>> ELSE <<>>
        s == IF lt_dec_u32(y, m.rows)
                /\ is_wall_present(m.sq[get_offset(m, x, y + 1)], DIR_NORTH)
             THEN <<DIR_SOUTH>> ELSE <<>>
        e == IF lt_dec_u32(x, m.cols)
                /\ is_wall_present(m.sq[get_offset(m, x + 1, y)], DIR_WEST)
             THEN <<DIR_EAST>> ELSE <<>>
        w == IF x > 0
                /\ is_wall_present(m.sq[get_offset(m, x - 1, y)], DIR_EAST)
             THEN <<DIR_WEST>> ELSE <<>>
    IN n \o s \o e \o w

\* A slip: NORTH is offered whether or not the northern neighbour is carved.
pick_candidates_north_any(m, x, y) ==
    LET n == IF y > 0 THEN <<DIR_NORTH>> ELSE <<>>
        s == IF lt_dec_u32(y, m.rows)
                /\ is_carved(m.sq[get_offset(m, x, y + 1)]) = FALSE
             THEN <<DIR_SOUTH>> ELSE <<>>
        e == IF lt_dec_u32(x, m.cols)
                /\ is_carved(m.sq[get_offset(m, x + 1, y)]) = FALSE
             THEN <<DIR_EAST>> ELSE <<>>
        w == IF x > 0 /\ is_carved(m.sq[get_offset(m, x - 1, y)]) = FALSE
             THEN <<DIR_WEST>> ELSE <<>>
    IN n \o s \o e \o w

\* A slip: the SOUTH test is missing.
pick_candidates_no_south(m, x, y) ==
    LET n == IF y > 0 /\ is_carved(m.sq[get_offset(m, x, y - 1)]) = FALSE
             THEN <<DIR_NORTH>> ELSE <<>>
        e == IF lt_dec_u32(x, m.cols)
                /\ is_carved(m.sq[get_offset(m, x + 1, y)]) = FALSE
             THEN <<DIR_EAST>> ELSE <<>>
        w == IF x > 0 /\ is_carved(m.sq[get_offset(m, x - 1, y)]) = FALSE
             THEN <<DIR_WEST>> ELSE <<>>
    IN n \o e \o w

\* pick_direction, the vector directions once the four tests have run.
pick_candidates(m, x, y) ==
    LET n == IF y > 0 /\ is_carved(m.sq[get_offset(m, x, y - 1)]) = FALSE
             THEN <<DIR_NORTH>> ELSE <<>>
        s == IF lt_dec_u32(y, m.rows)
                /\ is_carved(m.sq[get_offset(m, x, y + 1)]) = FALSE
             THEN <<DIR_SOUTH>> ELSE <<>>
        e == IF lt_dec_u32(x, m.cols)
                /\ is_carved(m.sq[get_offset(m, x + 1, y)]) = FALSE
             THEN <<DIR_EAST>> ELSE <<>>
        w == IF x > 0 /\ is_carved(m.sq[get_offset(m, x - 1, y)]) = FALSE
             THEN <<DIR_WEST>> ELSE <<>>
    IN n \o s \o e \o w

\* A slip: with no direction found it still reports one, NORTH.
pick_direction_always_true(m, x, y) ==
    LET directions == pick_candidates(m, x, y) IN
    IF Len(directions) = 0
    THEN {[result |-> TRUE, dir |-> DIR_NORTH]}
    ELSE {[result |-> TRUE, dir |-> directions[i]] : i \in 1..Len(directions)}

\* pick_direction: every pair (result, dir) it can return; gen_range draws
\* any index of directions.
pick_direction(m, x, y) ==
    LET directions == pick_candidates(m, x, y) IN
    IF Len(directions) = 0
    THEN {[result |-> FALSE, dir |-> 0]}
    ELSE {[result |-> TRUE, dir |-> directions[i]] : i \in 1..Len(directions)}

\* A slip: the WEST arm is missing, so WEST falls to the default arm.
move_no_west(c, dir) ==
    CASE dir = DIR_NORTH -> [ok |-> TRUE, c |-> [c EXCEPT !.y = c.y - 1]]
      [] dir = DIR_SOUTH -> [ok |-> TRUE, c |-> [c EXCEPT !.y = c.y + 1]]
      [] dir = DIR_EAST  -> [ok |-> TRUE, c |-> [c EXCEPT !.x = c.x + 1]]
      [] OTHER -> [ok |-> FALSE, c |-> c]

\* generator_growing_tree, the match that moves cur_coord one square.
move(c, dir) ==
    CASE dir = DIR_NORTH -> [ok |-> TRUE, c |-> [c EXCEPT !.y = c.y - 1]]
      [] dir = DIR_SOUTH -> [ok |-> TRUE, c |-> [c EXCEPT !.y = c.y + 1]]
      [] dir = DIR_EAST  -> [ok |-> TRUE, c |-> [c EXCEPT !.x = c.x + 1]]
      [] dir = DIR_WEST  -> [ok |-> TRUE, c |-> [c EXCEPT !.x = c.x - 1]]
      [] OTHER -> [ok |-> FALSE, c |-> c]

\* A slip: the current coordinate is pushed twice.
grow_step_push_twice(m, vis, cur, dir) ==
    LET r == carve(m, cur.x, cur.y, dir, ID_MAZE_PATH, FALSE) IN
    IF r.status # "ok"
    THEN [status |-> "panic", m |-> r.m, visited |-> vis, cur |-> cur]
    ELSE LET mv == move(cur, dir) IN
         [status |-> IF mv.ok THEN "ok" ELSE "err", m |-> r.m,
          visited |-> Append(Append(vis, cur), cur), cur |-> mv.c]

\* A slip: the passage is carved with carve_out set, so the destination
\* keeps the id it had.
grow_step_carve_out(m, vis, cur, dir) ==
    LET r == carve(m, cur.x, cur.y, dir, ID_MAZE_PATH, TRUE) IN
    IF r.status # "ok"
    THEN [status |-> "panic", m |-> r.m, visited |-> vis, cur |-> cur]
    ELSE LET mv == move(cur, dir) IN
         [status |-> IF mv.ok THEN "ok" ELSE "err", m |-> r.m,
          visited |-> Append(vis, cur), cur |-> mv.c]

\* generator_growing_tree, the branch taken when a direction was picked:
\* carve(..).unwrap(), push the current coordinate, move.  status is "ok",
\* "panic" (unwrap of an Err) or "err" (the Illegal direction arm).
grow_step(m, vis, cur, dir) ==
    LET r == carve(m, cur.x, cur.y, dir, ID_MAZE_PATH, FALSE) IN
    IF r.status # "ok"
    THEN [status |-> "panic", m |-> r.m, visited |-> vis, cur |-> cur]
    ELSE LET mv == move(cur, dir) IN
         [status |-> IF mv.ok THEN "ok" ELSE "err", m |-> r.m,
          visited |-> Append(vis, cur), cur |-> mv.c]

\* What a call of the generator has returned so far: op is the public
\* function that called it, (x, y) the origin it was given.
GenCallAt(op, start, status, msg) ==
    [NoCall EXCEPT !.op = op, !.x = start.x, !.y = start.y,
                   !.status = status, !.msg = msg]

\* generator_growing_tree(start.x, start.y) up to the head of its loop.
GrowFrom(op, start) ==
    /\ \E checked \in BOOLEAN :
       IF pick_panics(maze, start.x, start.y, checked)
       THEN /\ pc' = "panic"
            /\ last' = GenCallAt(op, start, "panic", "pick_direction")
            /\ cur_coord' = start
            /\ count' = NoCount
            /\ UNCHANGED <<maze, visited>>
       ELSE
       \E p \in pick_direction(maze, start.x, start.y) :
          IF p.result = FALSE
          THEN /\ pc' = "returned"
               /\ last' = GenCallAt(op, start, "err", "initial")
               /\ cur_coord' = start
               /\ count' = NoCount
               /\ UNCHANGED <<maze, visited>>
          ELSE LET g == grow_step(maze, <<>>, start, p.dir) IN
               /\ maze' = g.m
               /\ visited' = g.visited
               /\ cur_coord' = g.cur
               /\ count' = IF g.status = "panic" THEN NoCount
                           ELSE [NoCount EXCEPT !.carves = 1, !.pushes = 1]
               /\ pc' = CASE g.status = "ok" -> "loop"
                          [] g.status = "err" -> "returned"
                          [] OTHER -> "panic"
               /\ last' = CASE g.status = "ok" ->
                                GenCallAt(op, start, "running", "")
                            [] g.status = "err" ->
                                GenCallAt(op, start, "err", "direction")
                            [] OTHER ->
                                GenCallAt(op, start, "panic", "unwrap")
    /\ pre' = maze
    /\ UNCHANGED <<ncalls, square, presquare, mk>>

\* generate_perfect: generator_growing_tree(0, 0) up to the head of its loop.
GrowStart ==
    /\ pc = "ready"
    /\ last.op = "new"
    /\ GrowFrom("generate_perfect", [x |-> 0, y |-> 0])

\* One turn of the loop in which pick_direction finds a direction.
GrowCarve ==
    /\ pc = "loop"
    /\ Len(visited) > 0
    /\ \E p \in pick_direction(maze, cur_coord.x, cur_coord.y) :
          /\ p.result = TRUE
          /\ LET g == grow_step(maze, visited, cur_coord, p.dir) IN
               /\ maze' = g.m
               /\ visited' = g.visited
               /\ cur_coord' = g.cur
               /\ pc' = CASE g.status = "ok" -> "loop"
                          [] g.status = "err" -> "returned"
                          [] OTHER -> "panic"
               /\ last' = CASE g.status = "ok" -> last
                            [] g.status = "err" ->
                                [last EXCEPT !.status = "err",
                                             !.msg = "direction"]
                            [] OTHER ->
                                [last EXCEPT !.status = "panic",
                                             !.msg = "unwrap"]
               /\ count' = IF g.status = "panic" THEN count
                           ELSE [count EXCEPT !.carves = @ + 1, !.pushes = @ + 1]
    /\ UNCHANGED <<pre, ncalls, square, presquare, mk>>

\* A slip: the oldest item is taken instead of the newest.
pop_first(vis) ==
    IF Len(vis) = 0
    THEN [some |-> FALSE, item |-> [x |-> 0, y |-> 0], rest |-> vis]
    ELSE [some |-> TRUE, item |-> vis[1], rest |-> SubSeq(vis, 2, Len(vis))]

\* Vec::pop: None on an empty vector, else the last item and the rest.
pop(vis) ==
    IF Len(vis) = 0
    THEN [some |-> FALSE, item |-> [x |-> 0, y |-> 0], rest |-> vis]
    ELSE [some |-> TRUE, item |-> vis[Len(vis)],
          rest |-> SubSeq(vis, 1, Len(vis) - 1)]

\* One turn of the loop in which pick_direction finds none: pop.  A pop
\* that yields None returns the Pop failed error.
GrowPop ==
    /\ pc = "loop"
    /\ Len(visited) > 0
    /\ \E p \in pick_direction(maze, cur_coord.x, cur_coord.y) :
          /\ p.result = FALSE
          /\ LET item == pop(visited) IN
             IF item.some
             THEN /\ cur_coord' = item.item
                  /\ visited' = item.rest
                  /\ count' = [count EXCEPT !.pops = @ + 1]
                  /\ UNCHANGED <<pc, last>>
             ELSE /\ pc' = "returned"
                  /\ last' = [last EXCEPT !.status = "err", !.msg = "pop"]
                  /\ UNCHANGED <<cur_coord, visited, count>>
    /\ UNCHANGED <<maze, pre, ncalls, square, presquare, mk>>

\* The loop ends: visited is empty, Ok(()) is returned.
GrowReturn ==
    /\ pc = "loop"
    /\ Len(visited) = 0
    /\ pc' = "returned"
    /\ last' = [last EXCEPT !.status = "ok", !.msg = ""]
    /\ UNCHANGED <<maze, visited, cur_coord, pre, ncalls, square, presquare,
                   count, mk>>

\* lib.rs run: m.generate_perfect().unwrap() or m.generate(..).unwrap().
\* An Err aborts the program.
RunUnwrap ==
    /\ pc = "returned"
    /\ last.op \in {"generate_perfect", "generate"}
    /\ pc' = IF last.status = "ok" THEN "generated" ELSE "panic"
    /\ UNCHANGED <<maze, visited, cur_coord, last, pre, ncalls, square,
                   presquare, count, mk>>

Next == GrowStart \/ GrowCarve \/ GrowPop \/ GrowReturn \/ RunUnwrap

\* lib.rs run, two-integer form: Maze::new(w, h) for any u32 pair the
\* command line gives, zero included.
DimsRun == (0..MaxRows) \X (0..MaxCols)

InitRun ==
    /\ \E d \in DimsRun : maze = Maze_new(d[1], d[2])
    /\ pc = "ready"
    /\ visited = <<>>
    /\ cur_coord = [x |-> 0, y |-> 0]
    /\ last = NoCall
    /\ pre = maze
    /\ ncalls = 0
    /\ square = Square_new
    /\ presquare = Square_new
    /\ count = NoCount
    /\ mk = NoRooms

Spec == InitRun /\ [][Next]_vars

\* The program is one sequential thread: a step that can be taken is taken.
SpecLive == Spec /\ WF_vars(Next)

----------------------------------------------------------------------------
(* The caller of SpecSquare: Square::new, then break_wall and build_wall   *)
(* in any direction value.                                                 *)

SquareCall(op, dir) ==
    [NoCall EXCEPT !.op = op, !.dir = dir]

BreakWall(dir) ==
    /\ square' = break_wall(square, dir)
    /\ presquare' = square
    /\ last' = SquareCall("break_wall", dir)
    /\ UNCHANGED <<maze, pc, visited, cur_coord, pre, ncalls, count, mk>>

BuildWall(dir) ==
    /\ square' = build_wall(square, dir)
    /\ presquare' = square
    /\ last' = SquareCall("build_wall", dir)
    /\ UNCHANGED <<maze, pc, visited, cur_coord, pre, ncalls, count, mk>>

NextSquare == \E dir \in DirArgs : BreakWall(dir) \/ BuildWall(dir)

InitSquare ==
    /\ maze = Maze_new(1, 1)
    /\ pc = "ready"
    /\ visited = <<>>
    /\ cur_coord = [x |-> 0, y |-> 0]
    /\ last = NoCall
    /\ pre = maze
    /\ ncalls = 0
    /\ square = Square_new
    /\ presquare = Square_new
    /\ count = NoCount
    /\ mk = NoRooms

SpecSquare == InitSquare /\ [][NextSquare]_vars

----------------------------------------------------------------------------
(* The caller of pick_direction, after tests::test_direction_picker: a     *)
(* fresh maze, corridor carves between in-grid cells, and pick_direction   *)
(* asked at in-grid cells in between.                                      *)

PickCarve(x, y, dir) ==
    /\ pc = "ready"
    /\ ncalls < MaxPickCarves
    /\ LET r == carve(maze, x, y, dir, ID_MAZE_PATH, FALSE) IN
       /\ r.status = "ok"
       /\ maze' = r.m
       /\ last' = [NoCall EXCEPT !.op = "carve_for_pick"]
    /\ pre' = maze
    /\ ncalls' = ncalls + 1
    /\ UNCHANGED <<pc, visited, cur_coord, square, presquare, count, mk>>

PickCall(x, y) ==
    /\ pc = "ready"
    /\ \E checked \in BOOLEAN :
       IF pick_panics(maze, x, y, checked)
       THEN last' = [NoCall EXCEPT !.op = "pick_direction", !.x = x, !.y = y,
                                   !.status = "panic"]
       ELSE \E p \in pick_direction(maze, x, y) :
               last' = [NoCall EXCEPT !.op = "pick_direction",
                                      !.x = x, !.y = y, !.dir = p.dir,
                                      !.status = IF p.result THEN "true"
                                                 ELSE "false"]
    /\ pre' = maze
    /\ UNCHANGED <<maze, pc, visited, cur_coord, ncalls, square, presquare,
                   count, mk>>

NextPick ==
    \/ \E x \in 0..(maze.cols - 1), y \in 0..(maze.rows - 1),
          dir \in 0..(NUM_DIRECTIONS - 1) : PickCarve(x, y, dir)
    \/ \E x \in 0..(maze.cols - 1), y \in 0..(maze.rows - 1) : PickCall(x, y)

SpecPick == Init /\ [][NextPick]_vars

----------------------------------------------------------------------------
(* Room placement: make_rooms on a fresh maze, one turn of its loop a      *)
(* step.                                                                   *)

\* A slip: every id other than ID_UNCARVED counts as a room, the corridor
\* id included.
is_part_of_room_nonzero(s) == s.id # ID_UNCARVED

\* Square::is_part_of_room: the id is a positive room identifier.
is_part_of_room(s) == s.id > 0

\* rng.gen_range(low, high): the values it can draw; none means it aborts.
gen_range(low, high) == IF low < high THEN low..(high - 1) ELSE {}

\* rng.gen_range(1, dim - size) of make_rooms, dim being cols or rows.
\* With size > dim the u32 subtraction overflows: an abort where overflow
\* is checked; where it wraps, the upper end is 2^32 - (size - dim) and
\* the draw is any value from 1 up to nearly 2^32, of which a near and a
\* far one are kept.
sample_pos(dim, size, checked) ==
    IF size <= dim
    THEN [panic |-> gen_range(1, dim - size) = {},
          vals |-> gen_range(1, dim - size)]
    ELSE IF checked
         THEN [panic |-> TRUE, vals |-> {}]
         ELSE [panic |-> FALSE, vals |-> {1, FAR_COORD}]

\* rooms_overlap, the order of its scan: x from x_pos - 1 to end_x, and
\* for each x, y from y_pos - 1 to end_y.
scan_cells(x_pos, y_pos, x_size, y_size) ==
    LET h == y_size + 2 IN
    [k \in 1..((x_size + 2) * h) |->
        [x |-> x_pos - 1 + ((k - 1) \div h), y |-> y_pos - 1 + ((k - 1) % h)]]

\* rooms_overlap: "true" at the first scanned cell that is part of a room,
\* "panic" if a read past the end of sq comes first, else "false".
rooms_overlap(m, x_pos, y_pos, x_size, y_size) ==
    LET cells == scan_cells(x_pos, y_pos, x_size, y_size)
        off(k) == get_offset(m, cells[k].x, cells[k].y)
        stop == {k \in DOMAIN cells :
                    \/ off(k) \notin DOMAIN m.sq
                    \/ is_part_of_room(m.sq[off(k)])}
    IN IF stop = {} THEN "false"
       ELSE LET k == CHOOSE i \in stop : \A j \in stop : i <= j
            IN IF off(k) \notin DOMAIN m.sq THEN "panic" ELSE "true"

\* A slip: the EAST carve is made at the last column of the room too.
room_cell_calls_east_always(x_pos, y_pos, x_size, y_size, x, y) ==
    (IF y # y_pos THEN <<DIR_NORTH>> ELSE <<>>)
    \o (IF y # y_pos + y_size - 1 THEN <<DIR_SOUTH>> ELSE <<>>)
    \o <<DIR_EAST>>
    \o (IF x # x_pos THEN <<DIR_WEST>> ELSE <<>>)

\* carve_room, the directions it carves at the cell (x, y) of the room, in
\* order.
room_cell_calls(x_pos, y_pos, x_size, y_size, x, y) ==
    (IF y # y_pos THEN <<DIR_NORTH>> ELSE <<>>)
    \o (IF y # y_pos + y_size - 1 THEN <<DIR_SOUTH>> ELSE <<>>)
    \o (IF x # x_pos + x_size - 1 THEN <<DIR_EAST>> ELSE <<>>)
    \o (IF x # x_pos THEN <<DIR_WEST>> ELSE <<>>)

\* carve_room, the calls self.carve(x, y, dir, id, false).unwrap() at one
\* cell: an Err aborts.
RECURSIVE carve_each(_, _, _, _, _)
carve_each(m, x, y, dirs, id) ==
    IF dirs = <<>>
    THEN [status |-> "ok", m |-> m]
    ELSE LET r == carve(m, x, y, Head(dirs), id, FALSE) IN
         IF r.status # "ok"
         THEN [status |-> "panic", m |-> r.m]
         ELSE carve_each(r.m, x, y, Tail(dirs), id)

\* carve_room from its c-th cell on: x outer, y inner.
RECURSIVE carve_room_from(_, _, _, _, _, _, _)
carve_room_from(m, x_pos, y_pos, x_size, y_size, id, c) ==
    IF c >= x_size * y_size
    THEN [status |-> "ok", m |-> m]
    ELSE LET x == x_pos + (c \div y_size)
             y == y_pos + (c % y_size)
             r == carve_each(m, x, y,
                      room_cell_calls(x_pos, y_pos, x_size, y_size, x, y), id)
         IN IF r.status # "ok"
            THEN r
            ELSE carve_room_from(r.m, x_pos, y_pos, x_size, y_size, id, c + 1)

carve_room(m, x_pos, y_pos, x_size, y_size, id) ==
    carve_room_from(m, x_pos, y_pos, x_size, y_size, id, 0)

\* A slip: the id is advanced for a rejected sample too.
room_attempt_id_always(m, id, x_pos, y_pos, x_size, y_size) ==
    LET ov == rooms_overlap(m, x_pos, y_pos, x_size, y_size) IN
    IF ov = "panic"
    THEN [status |-> "panic", m |-> m, id |-> id, verdict |-> "scan aborted"]
    ELSE IF ov = "true"
    THEN [status |-> "ok", m |-> m, id |-> id + 1, verdict |-> "rejected"]
    ELSE LET r == carve_room(m, x_pos, y_pos, x_size, y_size, id) IN
         IF r.status # "ok"
         THEN [status |-> "panic", m |-> r.m, id |-> id,
               verdict |-> "carve aborted"]
         ELSE [status |-> "ok", m |-> r.m, id |-> id + 1,
               verdict |-> "accepted"]

\* make_rooms, the body of its loop once the sample is drawn.
room_attempt(m, id, x_pos, y_pos, x_size, y_size) ==
    LET ov == rooms_overlap(m, x_pos, y_pos, x_size, y_size) IN
    IF ov = "panic"
    THEN [status |-> "panic", m |-> m, id |-> id, verdict |-> "scan aborted"]
    ELSE IF ov = "true"
    THEN [status |-> "ok", m |-> m, id |-> id, verdict |-> "rejected"]
    ELSE LET r == carve_room(m, x_pos, y_pos, x_size, y_size, id) IN
         IF r.status # "ok"
         THEN [status |-> "panic", m |-> r.m, id |-> id,
               verdict |-> "carve aborted"]
         ELSE [status |-> "ok", m |-> r.m, id |-> id + 1,
               verdict |-> "accepted"]

RoomsCall(status, msg) ==
    [NoCall EXCEPT !.op = "make_rooms", !.status = status, !.msg = msg]

\* make_rooms is entered with its five arguments.
MakeRooms(cnt, min_x, max_x, min_y, max_y) ==
    /\ pc = "ready"
    /\ last.op = "new"
    /\ mk' = [NoRooms EXCEPT !.count = cnt, !.min_x = min_x, !.max_x = max_x,
                             !.min_y = min_y, !.max_y = max_y]
    /\ pc' = "rooms"
    /\ last' = RoomsCall("running", "")
    /\ pre' = maze
    /\ UNCHANGED <<maze, visited, cur_coord, ncalls, square, presquare, count>>

\* One turn of the loop: the four draws, rooms_overlap, carve_room.
RoomAttempt ==
    /\ pc = "rooms"
    /\ mk.i < mk.count
    /\ pre' = maze
    /\ \E checked \in BOOLEAN :
       LET xs == gen_range(mk.min_x, mk.max_x + 1)
           ys == gen_range(mk.min_y, mk.max_y + 1)
       IN IF xs = {} \/ ys = {}
          THEN /\ pc' = "panic"
               /\ last' = RoomsCall("panic", "gen_range")
               /\ mk' = [mk EXCEPT !.sample = NoSample]
               /\ UNCHANGED maze
          ELSE \E x_size \in xs, y_size \in ys :
               LET px == sample_pos(maze.cols, x_size, checked)
                   py == sample_pos(maze.rows, y_size, checked)
               IN IF px.panic \/ py.panic
                  THEN /\ pc' = "panic"
                       /\ last' = RoomsCall("panic", "position")
                       /\ mk' = [mk EXCEPT !.sample = NoSample]
                       /\ UNCHANGED maze
                  ELSE \E x_pos \in px.vals, y_pos \in py.vals :
                       LET o == room_attempt(maze, mk.id, x_pos, y_pos,
                                             x_size, y_size)
                           room == [x_pos |-> x_pos, y_pos |-> y_pos,
                                    x_size |-> x_size, y_size |-> y_size,
                                    id |-> mk.id]
                       IN /\ maze' = o.m
                          /\ pc' = IF o.status = "ok" THEN "rooms" ELSE "panic"
                          /\ last' = IF o.status = "ok"
                                     THEN RoomsCall("running", "")
                                     ELSE RoomsCall("panic", o.verdict)
                          /\ mk' = [mk EXCEPT
                                !.i = @ + 1,
                                !.id = o.id,
                                !.rooms = IF o.verdict = "accepted"
                                          THEN Append(@, room)
                                          ELSE @,
                                !.sample = [x_pos |-> x_pos, y_pos |-> y_pos,
                                            x_size |-> x_size,
                                            y_size |-> y_size,
                                            verdict |-> o.verdict]]
    /\ UNCHANGED <<visited, cur_coord, ncalls, square, presquare, count>>

\* The loop is over: num_rooms = id - 1 is stored and returned.
RoomsReturn ==
    /\ pc = "rooms"
    /\ mk.i = mk.count
    /\ maze' = [maze EXCEPT !.num_rooms = mk.id - 1]
    /\ pc' = "placed"
    /\ last' = [RoomsCall("ok", "") EXCEPT !.id = mk.id - 1]
    /\ UNCHANGED <<visited, cur_coord, pre, ncalls, square, presquare, count,
                   mk>>

NextRooms ==
    \/ \E cnt \in 0..MaxRoomCount,
          min_x \in 1..MaxRoomSize, max_x \in 1..MaxRoomSize,
          min_y \in 1..MaxRoomSize, max_y \in 1..MaxRoomSize :
          MakeRooms(cnt, min_x, max_x, min_y, max_y)
    \/ RoomAttempt
    \/ RoomsReturn

RoomDims == (1..MaxRoomRows) \X (1..MaxRoomCols)

InitRooms ==
    /\ \E d \in RoomDims : maze = Maze_new(d[1], d[2])
    /\ pc = "ready"
    /\ visited = <<>>
    /\ cur_coord = [x |-> 0, y |-> 0]
    /\ last = NoCall
    /\ pre = maze
    /\ ncalls = 0
    /\ square = Square_new
    /\ presquare = Square_new
    /\ count = NoCount
    /\ mk = NoRooms

SpecRooms == InitRooms /\ [][NextRooms]_vars

----------------------------------------------------------------------------
(* The program of lib.rs run in its seven-integer form: Maze::new, then    *)
(* generate (make_rooms, then the growing-tree generator from (0, 0)),     *)
(* then the unwrap of its result.                                          *)

\* run hands (rooms, min_w, min_h, max_w, max_h) to generate, which takes
\* the tuple as (rooms, min_x, max_x, min_y, max_y) and enters make_rooms
\* with these.
RunGenerate(rooms, min_w, min_h, max_w, max_h) ==
    /\ pc = "ready"
    /\ last.op = "new"
    /\ mk' = [NoRooms EXCEPT !.run = <<rooms, min_w, min_h, max_w, max_h>>,
                             !.count = rooms,
                             !.min_x = min_w, !.max_x = min_h,
                             !.min_y = max_w, !.max_y = max_h]
    /\ pc' = "rooms"
    /\ last' = RoomsCall("running", "")
    /\ pre' = maze
    /\ UNCHANGED <<maze, visited, cur_coord, ncalls, square, presquare, count>>

\* generate, after make_rooms: generator_growing_tree(0, 0) up to the head
\* of its loop.
GenerateGrow ==
    /\ pc = "placed"
    /\ last.op = "make_rooms"
    /\ GrowFrom("generate", [x |-> 0, y |-> 0])

NextGen ==
    \/ \E rooms \in 0..MaxGenRooms,
          min_w \in 1..MaxRoomSize, min_h \in 1..MaxRoomSize,
          max_w \in 1..MaxRoomSize, max_h \in 1..MaxRoomSize :
          RunGenerate(rooms, min_w, min_h, max_w, max_h)
    \/ RoomAttempt
    \/ RoomsReturn
    \/ GenerateGrow
    \/ GrowCarve
    \/ GrowPop
    \/ GrowReturn
    \/ RunUnwrap

GenDims == (1..MaxGenRows) \X (1..MaxGenCols)

InitGen ==
    /\ \E d \in GenDims : maze = Maze_new(d[1], d[2])
    /\ pc = "ready"
    /\ visited = <<>>
    /\ cur_coord = [x |-> 0, y |-> 0]
    /\ last = NoCall
    /\ pre = maze
    /\ ncalls = 0
    /\ square = Square_new
    /\ presquare = Square_new
    /\ count = NoCount
    /\ mk = NoRooms

SpecGen == InitGen /\ [][NextGen]_vars

----------------------------------------------------------------------------
(* The generator started at any origin of a fresh grid, as the public      *)
(* generate_growing_tree(start_x, start_y) of maze.rs allows.              *)

GrowAt(x, y) ==
    /\ pc = "ready"
    /\ last.op = "new"
    /\ GrowFrom("generate_growing_tree", [x |-> x, y |-> y])

NextOrigin ==
    \/ \E x \in 0..(maze.cols - 1), y \in 0..(maze.rows - 1) : GrowAt(x, y)
    \/ GrowCarve
    \/ GrowPop
    \/ GrowReturn

SpecOrigin == Init /\ [][NextOrigin]_vars

----------------------------------------------------------------------------
(* print, called on the grids the public carve can produce.  The text is   *)
(* a sequence of lines, a line a sequence of glyphs: "X" at its head, then *)
(* two characters for every cell.                                          *)

\* print, the line of vertical walls: the glyph of cell (x, y).
east_glyph(m, x, y) ==
    LET sq == m.sq[y * m.cols + x] IN
    IF is_wall_present(sq, DIR_EAST) = TRUE THEN " X" ELSE "  "

\* A slip: sq2 is read before the south wall is tested.
south_glyph_eager(m, x, y) ==
    LET sq == m.sq[y * m.cols + x] IN
    IF (y * m.cols + x + 1) \notin DOMAIN m.sq THEN "panic"
    ELSE LET sq2 == m.sq[y * m.cols + x + 1] IN
         IF is_wall_present(sq, DIR_SOUTH) = TRUE THEN "XX"
         ELSE IF is_part_of_room(sq) = TRUE /\ is_part_of_room(sq2) = TRUE
         THEN "  " ELSE " X"

\* print, the line of horizontal walls: the glyph of cell (x, y).  sq2 is
\* read at the next offset whatever x is; past the end of the vector the
\* index aborts.
south_glyph(m, x, y) ==
    LET sq == m.sq[y * m.cols + x] IN
    IF is_wall_present(sq, DIR_SOUTH) = TRUE THEN "XX"
    ELSE IF (y * m.cols + x + 1) \notin DOMAIN m.sq THEN "panic"
    ELSE LET sq2 == m.sq[y * m.cols + x + 1] IN
         IF is_part_of_room(sq) = TRUE /\ is_part_of_room(sq2) = TRUE
         THEN "  " ELSE " X"

\* print: status is "ok" or "panic"; out holds the lines it wrote, on a
\* panic the lines completed before it.
Maze_print(m) ==
    LET top == [i \in 1..(1 + m.cols * 2) |-> "X"]
        cell_line(y) == <<"X">> \o [x \in 1..m.cols |-> east_glyph(m, x - 1, y)]
        wall_line(y) == <<"X">> \o [x \in 1..m.cols |-> south_glyph(m, x - 1, y)]
        aborting == {y \in 0..(m.rows - 1) :
                        \E x \in 0..(m.cols - 1) : south_glyph(m, x, y) = "panic"}
        line(i) == IF i = 1 THEN top
                   ELSE IF i % 2 = 0 THEN cell_line((i - 2) \div 2)
                   ELSE wall_line((i - 3) \div 2)
    IN IF aborting = {}
       THEN [status |-> "ok", out |-> [i \in 1..(1 + 2 * m.rows) |-> line(i)]]
       ELSE LET y0 == CHOOSE y \in aborting : \A z \in aborting : y <= z
            IN [status |-> "panic", out |-> [i \in 1..(2 + 2 * y0) |-> line(i)]]

PrintCall ==
    /\ pc = "ready"
    /\ LET r == Maze_print(maze) IN
       /\ pc' = IF r.status = "panic" THEN "panic" ELSE "ready"
       /\ last' = [NoCall EXCEPT !.op = "print", !.status = r.status,
                                 !.out = r.out]
    /\ pre' = maze
    /\ UNCHANGED <<maze, visited, cur_coord, ncalls, square, presquare, count, mk>>

NextRender ==
    \/ \E x \in CoordArgs, y \in CoordArgs, dir \in DirArgs, id \in IdArgs,
          carve_out \in BOOLEAN : CarveCall(x, y, dir, id, carve_out)
    \/ PrintCall

SpecRender == Init /\ [][NextRender]_vars

----------------------------------------------------------------------------
(* A caller of the public functions of Maze in any order: new, then carve  *)
(* with any arguments, generate_perfect or generate (the generation once), *)
(* print; what a call returns is left to the caller, who goes on.          *)

\* The arguments the caller gives carve: the coordinates near the origin
\* and one far outside, the four directions and one that is none.
ApiCoordArgs == (0..MaxApiCoord) \cup {FAR_COORD}
ApiDirArgs == {DIR_NORTH, DIR_SOUTH, DIR_EAST, DIR_WEST, BAD_DIR}

ApiCarve(x, y, dir, id, carve_out) ==
    /\ ncalls < MaxApiCarves
    /\ CarveCall(x, y, dir, id, carve_out)

\* The generation has not been called yet.
NotGenerated == count = NoCount /\ mk = NoRooms

\* generate_perfect(), called on the grid as it stands.
ApiGeneratePerfect ==
    /\ pc = "ready"
    /\ NotGenerated
    /\ GrowFrom("generate_perfect", [x |-> 0, y |-> 0])

\* generate((rooms, min_x, max_x, min_y, max_y)), called on the grid as it
\* stands: make_rooms is entered with the tuple as it is.  The caller asks
\* for at least one room; with none, generate does what generate_perfect
\* does.
ApiGenerate(rooms, min_x, max_x, min_y, max_y) ==
    /\ pc = "ready"
    /\ NotGenerated
    /\ mk' = [NoRooms EXCEPT !.count = rooms,
                             !.min_x = min_x, !.max_x = max_x,
                             !.min_y = min_y, !.max_y = max_y]
    /\ pc' = "rooms"
    /\ last' = RoomsCall("running", "")
    /\ pre' = maze
    /\ UNCHANGED <<maze, visited, cur_coord, ncalls, square, presquare, count>>

\* The Result of the generation is back with the caller.
ApiResume ==
    /\ pc = "returned"
    /\ pc' = "ready"
    /\ UNCHANGED <<maze, visited, cur_coord, last, pre, ncalls, square,
                   presquare, count, mk>>

NextApi ==
    \/ \E x \in ApiCoordArgs, y \in ApiCoordArgs, dir \in ApiDirArgs,
          id \in IdArgs, carve_out \in BOOLEAN :
          ApiCarve(x, y, dir, id, carve_out)
    \/ ApiGeneratePerfect
    \/ \E rooms \in 1..MaxApiRooms,
          min_x \in 1..MaxRoomSize, max_x \in 1..MaxRoomSize,
          min_y \in 1..MaxRoomSize, max_y \in 1..MaxRoomSize :
          ApiGenerate(rooms, min_x, max_x, min_y, max_y)
    \/ RoomAttempt
    \/ RoomsReturn
    \/ GenerateGrow
    \/ GrowCarve
    \/ GrowPop
    \/ GrowReturn
    \/ ApiResume
    \/ PrintCall

SpecApi == InitGen /\ [][NextApi]_vars

----------------------------------------------------------------------------
(* What the claims speak of, stated on the data alone: the grid as a set   *)
(* of coordinates, the wall flags of a cell, the neighbour relation.       *)

Dirs == {DIR_NORTH, DIR_SOUTH, DIR_EAST, DIR_WEST}

InGrid(m, x, y) == x \in 0..(m.cols - 1) /\ y \in 0..(m.rows - 1)

Cells(m) == (0..(m.cols - 1)) \X (0..(m.rows - 1))

Cell(m, x, y) == m.sq[y * m.cols + x]

Wall(m, x, y, d) == Cell(m, x, y).wall_present[d + 1]

Neighbour(x, y, d) ==
    CASE d = DIR_NORTH -> <<x, y - 1>>
      [] d = DIR_SOUTH -> <<x, y + 1>>
      [] d = DIR_EAST  -> <<x + 1, y>>
      [] d = DIR_WEST  -> <<x - 1, y>>

Opposite(d) ==
    CASE d = DIR_NORTH -> DIR_SOUTH
      [] d = DIR_SOUTH -> DIR_NORTH
      [] d = DIR_EAST  -> DIR_WEST
      [] d = DIR_WEST  -> DIR_EAST

NeighbourInGrid(m, x, y, d) ==
    InGrid(m, Neighbour(x, y, d)[1], Neighbour(x, y, d)[2])

AllWalls == <<TRUE, TRUE, TRUE, TRUE>>

FreshGrid(m) ==
    /\ DOMAIN m.sq = 0..(m.rows * m.cols - 1)
    /\ \A o \in DOMAIN m.sq : m.sq[o].wall_present = AllWalls /\ m.sq[o].id = 0

CellCarved(m, c) == \E d \in Dirs : ~Wall(m, c[1], c[2], d)

AllCarved(m) == \A c \in Cells(m) : CellCarved(m, c)

\* The cells one step away from a cell of S through an absent wall.
Step(m, S) ==
    {n \in Cells(m) : \E c \in S, d \in Dirs :
        ~Wall(m, c[1], c[2], d) /\ n = Neighbour(c[1], c[2], d)}

RECURSIVE Flood(_, _)
Flood(m, S) ==
    LET T == S \cup Step(m, S) IN IF T = S THEN S ELSE Flood(m, T)

Connected(m) == \A c \in Cells(m) : Flood(m, {c}) = Cells(m)

Generated == pc = "returned" /\ last.op = "generate_perfect"

Carved == last.op = "carve"

CarvedOk == last.op = "carve" /\ last.status = "ok"

\* The destination of the last carve call.
LastDest == Neighbour(last.x, last.y, last.dir)

----------------------------------------------------------------------------
C2_CarveBreaksBothWalls ==
    (Carved /\ InGrid(pre, last.x, last.y) /\ last.dir \in Dirs
        /\ NeighbourInGrid(pre, last.x, last.y, last.dir)) =>
        /\ last.status = "ok"
        /\ ~Wall(maze, last.x, last.y, last.dir)
        /\ ~Wall(maze, LastDest[1], LastDest[2], Opposite(last.dir))
        /\ (FreshGrid(pre) /\ last.x = 0 /\ last.y = 0 /\ last.dir = DIR_SOUTH) =>
              /\ Cell(maze, 0, 0).wall_present = <<TRUE, FALSE, TRUE, TRUE>>
              /\ Cell(maze, 0, 1).wall_present = <<FALSE, TRUE, TRUE, TRUE>>

C2_Witness ==
    /\ CarvedOk
    /\ FreshGrid(pre)
    /\ last.x = 0 /\ last.y = 0 /\ last.dir = DIR_SOUTH
    /\ Cell(maze, 0, 0).wall_present = <<TRUE, FALSE, TRUE, TRUE>>
    /\ Cell(maze, 0, 1).wall_present = <<FALSE, TRUE, TRUE, TRUE>>

(* C3: carve at an in-grid cell toward a direction that points off the     *)
(* grid returns an error and leaves the whole Maze as it was.              *)
C3_CarveOffGridRefused ==
    (Carved /\ InGrid(pre, last.x, last.y) /\ last.dir \in Dirs
        /\ ~NeighbourInGrid(pre, last.x, last.y, last.dir)) =>
        /\ last.status = "err"
        /\ maze = pre

C3_Witness ==
    /\ Carved
    /\ last.status = "err"
    /\ InGrid(pre, last.x, last.y)
    /\ last.dir = DIR_SOUTH /\ last.y = pre.rows - 1
    /\ ~FreshGrid(pre)
    /\ maze = pre

(* C4: carve with coordinates outside the grid returns an error, does not  *)
(* abort, and leaves the whole Maze as it was.                             *)
C4_CarveOutsideRefused ==
    (Carved /\ ~InGrid(pre, last.x, last.y)) =>
        /\ last.status = "err"
        /\ pc # "panic"
        /\ maze = pre

C4_Witness ==
    /\ Carved
    /\ last.x = FAR_COORD /\ last.y = FAR_COORD /\ last.dir = DIR_NORTH
    /\ last.status = "err"
    /\ ~FreshGrid(pre)
    /\ maze = pre

(* C5: carve at an in-grid cell with a direction value other than 0..3     *)
(* returns an error and leaves the whole Maze as it was.                   *)
C5_CarveBadDirectionRefused ==
    (Carved /\ InGrid(pre, last.x, last.y) /\ last.dir \notin Dirs) =>
        /\ last.status = "err"
        /\ maze = pre

C5_Witness ==
    /\ Carved
    /\ InGrid(pre, last.x, last.y)
    /\ last.dir = NUM_DIRECTIONS
    /\ last.status = "err"
    /\ ~FreshGrid(pre)
    /\ maze = pre

(* C6: a successful carve changes nothing but wall D of cell (x,y), the    *)
(* opposite wall of its neighbour in direction D, and the ids of those two *)
(* cells.                                                                  *)
C6_CarveFrame ==
    CarvedOk =>
        LET o1 == last.y * pre.cols + last.x
            o2 == LastDest[2] * pre.cols + LastDest[1]
        IN
        /\ maze.rows = pre.rows /\ maze.cols = pre.cols
        /\ maze.num_rooms = pre.num_rooms
        /\ DOMAIN maze.sq = DOMAIN pre.sq
        /\ \A o \in DOMAIN pre.sq : o \notin {o1, o2} => maze.sq[o] = pre.sq[o]
        /\ \A d \in Dirs :
              /\ d # last.dir =>
                    maze.sq[o1].wall_present[d + 1] = pre.sq[o1].wall_present[d + 1]
              /\ d # Opposite(last.dir) =>
                    maze.sq[o2].wall_present[d + 1] = pre.sq[o2].wall_present[d + 1]

C6_Witness ==
    /\ CarvedOk
    /\ ncalls = 2
    /\ maze # pre
    /\ \E o \in DOMAIN pre.sq :
          /\ o \notin {last.y * pre.cols + last.x,
                       LastDest[2] * pre.cols + LastDest[1]}
          /\ pre.sq[o].wall_present # AllWalls
          /\ maze.sq[o] = pre.sq[o]

(* C7: a successful carve leaves the origin cell with id; the destination  *)
(* cell has id when carve_out is false and its previous id when carve_out  *)
(* is true.                                                                *)
C7_CarveIds ==
    CarvedOk =>
        /\ Cell(maze, last.x, last.y).id = last.id
        /\ last.carve_out = FALSE =>
              Cell(maze, LastDest[1], LastDest[2]).id = last.id
        /\ last.carve_out = TRUE =>
              Cell(maze, LastDest[1], LastDest[2]).id =
                  Cell(pre, LastDest[1], LastDest[2]).id

C7_Witness ==
    /\ CarvedOk
    /\ last.carve_out = TRUE
    /\ last.id = ID_MAZE_PATH
    /\ Cell(pre, LastDest[1], LastDest[2]).id = 1
    /\ Cell(maze, LastDest[1], LastDest[2]).id = 1
    /\ Cell(maze, last.x, last.y).id = ID_MAZE_PATH

(* C8: a successful carve made a second time with the same arguments       *)
(* returns Ok and leaves the Maze as the first call left it.               *)
C8_CarveIdempotent ==
    (Carved /\ last.same) =>
        /\ last.status = "ok"
        /\ maze = pre

C8_Witness ==
    /\ Carved
    /\ last.same
    /\ last.status = "ok"
    /\ ~Wall(maze, last.x, last.y, last.dir)
    /\ maze = pre

(* C9: a Maze built by new(rows, cols) holds rows * cols cells, each with  *)
(* all four walls present and id 0.                                        *)
C9_NewMazeFresh ==
    last.op = "new" =>
        /\ Cardinality(DOMAIN maze.sq) = maze.rows * maze.cols
        /\ DOMAIN maze.sq = 0..(maze.rows * maze.cols - 1)
        /\ \A o \in DOMAIN maze.sq :
              /\ maze.sq[o].wall_present = <<TRUE, TRUE, TRUE, TRUE>>
              /\ maze.sq[o].id = ID_UNCARVED

C9_Witness ==
    /\ last.op = "new"
    /\ maze.rows = 2 /\ maze.cols = 3
    /\ Cardinality(DOMAIN maze.sq) = 6

(* C10: is_carved(cell) is true iff at least one of the four wall flags is *)
(* false, and false iff all four are true.                                 *)
C10_IsCarved ==
    /\ is_carved(square) = TRUE <=> \E i \in 1..4 : square.wall_present[i] = FALSE
    /\ is_carved(square) = FALSE <=> \A i \in 1..4 : square.wall_present[i] = TRUE

C10_Witness ==
    /\ square.wall_present = <<TRUE, TRUE, TRUE, FALSE>>
    /\ is_carved(square) = TRUE

----------------------------------------------------------------------------
\* The directions pick_direction may report at (x, y): the neighbour in
\* that direction is inside the grid and is not carved.
Candidates(m, x, y) ==
    {d \in Dirs : /\ NeighbourInGrid(m, x, y, d)
                  /\ ~CellCarved(m, Neighbour(x, y, d))}

Picked == last.op = "pick_direction"

(* C11: pick_direction at an in-grid cell, in any grid state, reports a    *)
(* direction only from the candidate set (neighbour inside the grid and    *)
(* not carved), every member of the set can be returned, and it reports    *)
(* 'no direction' iff the set is empty; it never aborts there.             *)
C11_PickDirection ==
    /\ \A c \in Cells(maze) :
          LET P == pick_direction(maze, c[1], c[2])
              K == Candidates(maze, c[1], c[2])
          IN /\ {p.dir : p \in {q \in P : q.result}} = K
             /\ (\E p \in P : ~p.result) <=> K = {}
             /\ (\E p \in P : ~p.result) => (\A p \in P : ~p.result)
             /\ \A checked \in BOOLEAN :
                   ~pick_panics(maze, c[1], c[2], checked)
    /\ Picked =>
          /\ last.status \in {"true", "false"}
          /\ last.status = "true" =>
                last.dir \in Candidates(maze, last.x, last.y)
          /\ last.status = "false" <=> Candidates(maze, last.x, last.y) = {}

\* The four cases of the claim: none at a cell whose four neighbours are
\* carved, all four at an uncarved interior, two at a corner.
C11_Witness ==
    /\ Picked
    /\ maze.rows = 3 /\ maze.cols = 3
    /\ last.x = 1 /\ last.y = 1
    /\ last.status = "false"
    /\ ~CellCarved(maze, <<1, 1>>)
    /\ Candidates(maze, 0, 0) = {}
    /\ Candidates(maze, 1, 0) = {DIR_SOUTH}

----------------------------------------------------------------------------
\* The passages of a grid: the walls between two adjacent in-grid cells
\* that are absent (on either side), each named once by its northern or
\* western cell and the direction SOUTH or EAST.
Passages(m) ==
    {e \in Cells(m) \X {DIR_SOUTH, DIR_EAST} :
        /\ NeighbourInGrid(m, e[1][1], e[1][2], e[2])
        /\ \/ ~Wall(m, e[1][1], e[1][2], e[2])
           \/ LET n == Neighbour(e[1][1], e[1][2], e[2])
              IN ~Wall(m, n[1], n[2], Opposite(e[2]))}

PassageEnd(e) == Neighbour(e[1][1], e[1][2], e[2])

\* The cells one step away from a cell of S through a passage other than e.
StepWithout(m, S, e) ==
    {n \in Cells(m) : \E c \in S, p \in Passages(m) \ {e} :
        \/ p[1] = c /\ n = PassageEnd(p)
        \/ PassageEnd(p) = c /\ n = p[1]}

RECURSIVE FloodWithout(_, _, _)
FloodWithout(m, S, e) ==
    LET T == S \cup StepWithout(m, S, e)
    IN IF T = S THEN S ELSE FloodWithout(m, T, e)

\* No passage lies on a cycle: without it, its two ends are apart.
Acyclic(m) ==
    \A e \in Passages(m) :
        \A c \in FloodWithout(m, {e[1]}, e) : c # PassageEnd(e)

\* A wall is absent on one side exactly when it is absent on the other,
\* and no wall on the edge of the grid is absent.
WallsAgree(m) ==
    \A c \in Cells(m), d \in Dirs :
        IF NeighbourInGrid(m, c[1], c[2], d)
        THEN LET n == Neighbour(c[1], c[2], d)
             IN Wall(m, c[1], c[2], d) = Wall(m, n[1], n[2], Opposite(d))
        ELSE Wall(m, c[1], c[2], d)

(* C12: after generate_perfect succeeds on a fresh R x C grid, the graph   *)
(* whose edges are the broken walls between adjacent cells is a spanning   *)
(* tree: exactly R*C - 1 passages, connected, and no passage on a cycle,   *)
(* for every sequence of random choices.                                   *)
C12_SpanningTree ==
    (Generated /\ FreshGrid(pre) /\ last.status = "ok") =>
        /\ Cardinality(Passages(maze)) = maze.rows * maze.cols - 1
        /\ Connected(maze)
        /\ Acyclic(maze)
        /\ WallsAgree(maze)

\* A finished 3 x 3 maze with a junction: a cell with three passages.
C12_Witness ==
    /\ Generated
    /\ last.status = "ok"
    /\ maze.rows = 3 /\ maze.cols = 3
    /\ Cardinality(Passages(maze)) = 8
    /\ \E c \in Cells(maze) :
          Cardinality({d \in Dirs : ~Wall(maze, c[1], c[2], d)}) = 3

----------------------------------------------------------------------------
\* The resources of a generation in progress or finished, on a grid with
\* at least one row and one column.
C13_Bounds ==
    (maze.rows >= 1 /\ maze.cols >= 1 /\ last.op = "generate_perfect") =>
        /\ last.status # "panic"
        /\ count.carves <= maze.rows * maze.cols - 1
        /\ count.pops <= count.pushes
        /\ Len(visited) = count.pushes - count.pops
        /\ Len(visited) <= maze.rows * maze.cols - 1
        /\ pc = "returned" /\ last.status = "ok" => count.pops = count.pushes

(* C13: growing-tree generation always terminates: on every grid with      *)
(* R >= 1 and C >= 1 and for every sequence of random choices the loop     *)
(* ends (generate_perfect returns), after at most R*C - 1 carving steps    *)
(* and at most as many pops as pushes, the backtracking stack never        *)
(* holding more than R*C - 1 coordinates.                                  *)
C13_Terminates ==
    /\ []C13_Bounds
    /\ (maze.rows >= 1 /\ maze.cols >= 1) => <>(pc = "returned")

\* The largest grid, finished: every one of its R*C - 1 carving steps
\* taken, every pushed coordinate popped again.
C13_Witness ==
    /\ pc = "returned"
    /\ last.op = "generate_perfect" /\ last.status = "ok"
    /\ maze.rows = MaxRows /\ maze.cols = MaxCols
    /\ count.carves = MaxRows * MaxCols - 1
    /\ count.pushes = MaxRows * MaxCols - 1
    /\ count.pops = count.pushes
    /\ visited = <<>>

----------------------------------------------------------------------------
\* generate_perfect has been entered (and may have returned).
Generating == last.op = "generate_perfect"

(* C14: if the origin cell has no legal initial direction (no in-bounds    *)
(* uncarved neighbour, as on a 1 x 1 grid), generation returns an error    *)
(* at once: before any carve, push or pop, walls and ids unchanged; and    *)
(* it returns that error in no other case.                                 *)
C14_NoInitialDirection ==
    (Generating /\ maze.rows >= 1 /\ maze.cols >= 1) =>
        /\ Candidates(pre, 0, 0) = {} <=>
              (last.status = "err" /\ last.msg = "initial")
        /\ Candidates(pre, 0, 0) = {} =>
              /\ pc \in {"returned", "panic"}
              /\ maze = pre
              /\ count = NoCount
              /\ visited = <<>>

C14_Witness ==
    /\ Generated
    /\ maze.rows = 1 /\ maze.cols = 1
    /\ Candidates(pre, 0, 0) = {}
    /\ last.status = "err" /\ last.msg = "initial"
    /\ maze = pre

----------------------------------------------------------------------------
(* C15 as stated: with rows >= 1 and cols >= 1 generate_perfect never      *)
(* yields an error, so run, which unwraps the result, never aborts in the  *)
(* two-integer form.  The 1 x 1 grid refutes it: generate_perfect returns  *)
(* Err("Unable to pick initial direction in generator!") and the unwrap    *)
(* in run aborts the program.                                              *)
C15_NeverErrors ==
    (Generating /\ maze.rows >= 1 /\ maze.cols >= 1) =>
        /\ last.status \in {"running", "ok"}
        /\ pc # "panic"

(* C16 as stated: on a zero-sized grid (rows = 0 or cols = 0) new gives a  *)
(* grid with no cells and generation is a no-op: no out-of-range cell      *)
(* access, no unsigned underflow, the grid unchanged.  Every zero-sized    *)
(* grid refutes it: pick_direction(0, 0) computes rows - 1 or cols - 1 on  *)
(* a zero (an overflow abort where overflow is checked) or, wrapped, reads *)
(* a cell of the empty array.                                              *)
C16_ZeroGridNoCrash ==
    /\ (maze.rows = 0 \/ maze.cols = 0) => DOMAIN maze.sq = {}
    /\ (Generating /\ (maze.rows = 0 \/ maze.cols = 0)) =>
          /\ last.status # "panic"
          /\ pc # "panic"
          /\ maze = pre

----------------------------------------------------------------------------
\* The cells of a room, and of its rectangle grown by one cell on each
\* side.
Footprint(r) ==
    (r.x_pos..(r.x_pos + r.x_size - 1)) \X (r.y_pos..(r.y_pos + r.y_size - 1))

Expanded(r) ==
    ((r.x_pos - 1)..(r.x_pos + r.x_size)) \X ((r.y_pos - 1)..(r.y_pos + r.y_size))

\* A position was drawn in the last turn of the loop of make_rooms.
Sampled == last.op = "make_rooms" /\ mk.sample.verdict # "none"

Accepted == Sampled /\ mk.sample.verdict = "accepted"

(* C17 as stated: no two accepted rooms overlap or lie within one cell of  *)
(* each other: the rectangle of one, grown by one cell on every side,      *)
(* shares no cell with the footprint of the other.  A 1 x 1 room refutes   *)
(* it: carve_room makes no carve for it, its cell keeps id 0, and          *)
(* rooms_overlap accepts a later room on top of it.                        *)
C17_RoomsApart ==
    \A i, j \in DOMAIN mk.rooms :
        i # j => Expanded(mk.rooms[i]) \cap Footprint(mk.rooms[j]) = {}

(* C18 as stated: every sampled room position leaves a 1-cell margin to    *)
(* all four grid edges (1 <= x, x + w <= cols - 1, 1 <= y,                 *)
(* y + h <= rows - 1), so no room cell lies in the first or last row or    *)
(* column, and the overlap scan of the expanded rectangle stays inside     *)
(* the grid.  A room wider than the grid (or higher) refutes it where u32  *)
(* subtraction wraps: cols - x_size is then nearly 2^32, the position      *)
(* drawn lies anywhere up to that, and the scan reads past the grid.       *)
C18_SampleMargin ==
    Sampled =>
        LET r == mk.sample IN
        /\ 1 <= r.x_pos /\ r.x_pos + r.x_size <= maze.cols - 1
        /\ 1 <= r.y_pos /\ r.y_pos + r.y_size <= maze.rows - 1
        /\ \A c \in Footprint(r) :
              c[1] \in 1..(maze.cols - 2) /\ c[2] \in 1..(maze.rows - 2)
        /\ \A c \in Expanded(r) : InGrid(maze, c[1], c[2])
        /\ mk.sample.verdict # "scan aborted"

C20_RoomCellsTagged ==
    last.op = "make_rooms" =>
        \A i \in DOMAIN mk.rooms : \A c \in Footprint(mk.rooms[i]) :
            /\ is_carved(Cell(maze, c[1], c[2]))
            /\ Cell(maze, c[1], c[2]).id = mk.rooms[i].id
            /\ is_part_of_room(Cell(maze, c[1], c[2]))

----------------------------------------------------------------------------
\* make_rooms has returned.
Placed == pc = "placed" /\ last.op = "make_rooms"

(* C21: room placement makes exactly N sampling attempts with no retry;    *)
(* the k accepted rooms get the ids 1, 2, ..., k in order of acceptance,   *)
(* rejected samples consume no id, and the reported count and the stored   *)
(* num_rooms equal k <= N.                                                 *)
C21_RoomIds ==
    last.op = "make_rooms" =>
        /\ mk.i <= mk.count
        /\ Len(mk.rooms) <= mk.i
        /\ mk.id = Len(mk.rooms) + 1
        /\ \A k \in DOMAIN mk.rooms : mk.rooms[k].id = k
        /\ Placed =>
              /\ mk.i = mk.count
              /\ maze.num_rooms = Len(mk.rooms)
              /\ last.id = Len(mk.rooms)
              /\ last.status = "ok"

\* Two attempts, the first accepted as room 1, the second rejected: one
\* room reported.
C21_Witness ==
    /\ Placed
    /\ mk.count = 2
    /\ Len(mk.rooms) = 1
    /\ mk.sample.verdict = "rejected"
    /\ maze.num_rooms = 1

----------------------------------------------------------------------------
(* C22 as stated: when the program is run with seven integers (rows,       *)
(* cols, roomCount, minRoomW, minRoomH, maxRoomW, maxRoomH), every         *)
(* sampled room has its width in [minRoomW, maxRoomW] and its height in    *)
(* [minRoomH, maxRoomH].  The order of the tuple refutes it: run passes   *)
(* (rooms, min_w, min_h, max_w, max_h) and generate reads it as (rooms,    *)
(* min_x, max_x, min_y, max_y), so widths are drawn from [minRoomW,        *)
(* minRoomH] and heights from [maxRoomW, maxRoomH].                        *)
C22_SizeRanges ==
    (mk.run # <<>> /\ mk.sample.verdict # "none") =>
        LET minRoomW == mk.run[2]
            minRoomH == mk.run[3]
            maxRoomW == mk.run[4]
            maxRoomH == mk.run[5]
        IN /\ mk.sample.x_size \in minRoomW..maxRoomW
           /\ mk.sample.y_size \in minRoomH..maxRoomH

----------------------------------------------------------------------------
(* Cells that are not part of a room, and reachability among them through  *)
(* broken walls.                                                           *)
CorridorCells(m) ==
    {c \in Cells(m) : ~is_part_of_room(Cell(m, c[1], c[2]))}

StepOutside(m, S) ==
    {n \in CorridorCells(m) : \E c \in S, d \in Dirs :
        ~Wall(m, c[1], c[2], d) /\ n = Neighbour(c[1], c[2], d)}

RECURSIVE FloodOutside(_, _)
FloodOutside(m, S) ==
    LET T == S \cup StepOutside(m, S)
    IN IF T = S THEN S ELSE FloodOutside(m, T)

GeneratedRooms ==
    pc = "returned" /\ last.op = "generate" /\ last.status = "ok"

(* C23: after generate returns success every cell of the grid is carved,   *)
(* and the cells that are not part of a room are mutually reachable        *)
(* through broken walls without entering a room, whatever rooms were       *)
(* placed and whatever directions were drawn.                              *)
C23_CorridorsConnected ==
    GeneratedRooms =>
        /\ AllCarved(maze)
        /\ \A c \in CorridorCells(maze) :
              FloodOutside(maze, {c}) = CorridorCells(maze)

(* A run on a 3 x 4 grid that placed a tagged room and then returned.      *)
C23_Witness ==
    /\ GeneratedRooms
    /\ maze.rows = 3 /\ maze.cols = 4
    /\ Len(mk.rooms) >= 1
    /\ \E c \in Cells(maze) : is_part_of_room(Cell(maze, c[1], c[2]))
    /\ \E c \in Cells(pre) : ~CellCarved(pre, c)

----------------------------------------------------------------------------
(* C24: the corridor carver stamps both cells of every passage it carves   *)
(* with ID_MAZE_PATH and never overwrites a room id.  From the moment      *)
(* generate starts the carver until it returns, every cell that room       *)
(* placement tagged with a room id k still has id k, and every other       *)
(* carved cell has id -1.                                                  *)
C24_CorridorIds ==
    last.op = "generate" =>
        \A c \in Cells(maze) :
            LET placed == Cell(pre, c[1], c[2])
                now    == Cell(maze, c[1], c[2])
            IN IF placed.id >= 1
               THEN now.id = placed.id
               ELSE is_carved(now) = TRUE => now.id = ID_MAZE_PATH

(* generate has returned on a grid where placement tagged a room with id 1 *)
(* and the carver turned the other cells into corridor.                    *)
C24_Witness ==
    /\ GeneratedRooms
    /\ \E c \in Cells(pre) : Cell(pre, c[1], c[2]).id = 1
    /\ \E c \in Cells(maze) :
          /\ Cell(pre, c[1], c[2]).id = ID_UNCARVED
          /\ Cell(maze, c[1], c[2]).id = ID_MAZE_PATH

----------------------------------------------------------------------------
----------------------------------------------------------------------------
(* C26: breaking or building a wall of a single cell in a direction other  *)
(* than 0..3 (17, say) is ignored, all four flags staying as they were; in *)
(* a valid direction it changes that one flag only; and breaking a wall    *)
(* that is already broken changes nothing.                                 *)
C26_WallOps ==
    last.op \in {"break_wall", "build_wall"} =>
        LET dir == last.dir IN
        IF dir \in Dirs
        THEN /\ square.wall_present[dir + 1] = (last.op = "build_wall")
             /\ \A d \in Dirs \ {dir} :
                   square.wall_present[d + 1] = presquare.wall_present[d + 1]
             /\ square.id = presquare.id
             /\ (last.op = "break_wall" /\ ~presquare.wall_present[dir + 1])
                   => square = presquare
        ELSE square = presquare

(* break_wall(17) on a cell whose south wall is already broken, after a    *)
(* break_wall in a valid direction.                                        *)
C26_Witness ==
    /\ last.op = "break_wall"
    /\ last.dir = BAD_DIR
    /\ ~presquare.wall_present[DIR_SOUTH + 1]
    /\ presquare.wall_present[DIR_NORTH + 1]
    /\ square = presquare

----------------------------------------------------------------------------
\* The glyph print wrote for cell (x, y) on the line of horizontal walls.
SouthGlyph(x, y) == last.out[2 * y + 3][x + 2]

(* C27 as stated: after a cell's open south passage the renderer omits the *)
(* corner glyph exactly when the cell and its east neighbour are both part *)
(* of a room and both have a broken south wall; in every other case with   *)
(* an open south passage it writes the corner "X", and with the south wall *)
(* present it writes "XX".  print does not look at the neighbour's south   *)
(* wall, and takes the cell at the next offset for the east neighbour even *)
(* in the last column.                                                     *)
C27_CornerGlyph ==
    (last.op = "print" /\ last.status = "ok") =>
        \A c \in Cells(maze) :
            LET x == c[1]
                y == c[2]
                omit == /\ NeighbourInGrid(maze, x, y, DIR_EAST)
                        /\ is_part_of_room(Cell(maze, x, y))
                        /\ is_part_of_room(Cell(maze, x + 1, y))
                        /\ ~Wall(maze, x, y, DIR_SOUTH)
                        /\ ~Wall(maze, x + 1, y, DIR_SOUTH)
            IN SouthGlyph(x, y) =
                 IF Wall(maze, x, y, DIR_SOUTH) THEN "XX"
                 ELSE IF omit THEN "  " ELSE " X"

----------------------------------------------------------------------------
(* C28 as stated: for any in-grid origin on a fresh grid, generation stops *)
(* only in the terminal condition: when it returns, the stack is empty,    *)
(* the current cell has no candidate direction, and every cell reachable   *)
(* from the origin through uncarved neighbours (on a fresh grid, every     *)
(* cell) has been carved and connected.  The loop ends as soon as the      *)
(* origin is popped, whatever candidates the origin still has.             *)
C28_TerminalCondition ==
    (pc = "returned" /\ last.op = "generate_growing_tree"
                     /\ last.status = "ok") =>
        /\ visited = <<>>
        /\ pick_candidates(maze, cur_coord.x, cur_coord.y) = <<>>
        /\ AllCarved(maze)
        /\ Flood(maze, {<<last.x, last.y>>}) = Cells(maze)

----------------------------------------------------------------------------
(* C29: the only error the carver ever reports is the one for no initial   *)
(* direction at the origin.  In every state of the generation loop the     *)
(* Pop failed and the Illegal direction returns are not reached: whatever  *)
(* pick_direction can report at the current cell is one of the four        *)
(* directions, and a pop finds the stack non-empty.                        *)
C29_OnlyInitialError ==
    /\ last.status = "err" => last.msg = "initial"
    /\ last.msg \notin {"pop", "direction"}
    /\ pc = "loop" =>
          /\ \A p \in pick_direction(maze, cur_coord.x, cur_coord.y) :
                p.result = TRUE => p.dir \in Dirs
          /\ Len(visited) > 0 => pop(visited).some

(* The loop has popped its way back to an empty stack on a grid where      *)
(* WEST was among the directions taken.                                    *)
C29_Witness ==
    /\ pc = "loop"
    /\ visited = <<>>
    /\ count.pops >= 2
    /\ \E c \in Cells(maze) :
          /\ ~Wall(maze, c[1], c[2], DIR_WEST)
          /\ ~Wall(maze, c[1], c[2], DIR_SOUTH)

----------------------------------------------------------------------------
(* C30: the corridor carver treats room cells as already visited and never *)
(* alters them.  From the start of the carver to generate's return, every  *)
(* cell that is part of a room after room placement has the four wall      *)
(* flags it had right after room placement, and the carver's current cell  *)
(* is never a room cell.                                                   *)
C30_RoomsUntouched ==
    last.op = "generate" =>
        /\ \A c \in Cells(pre) :
              is_part_of_room(Cell(pre, c[1], c[2])) =>
                  Cell(maze, c[1], c[2]).wall_present =
                      Cell(pre, c[1], c[2]).wall_present
        /\ pc = "loop" =>
              ~is_part_of_room(Cell(maze, cur_coord.x, cur_coord.y))

(* generate has returned; a room cell kept its south wall although the     *)
(* cell below it, uncarved after placement, is now corridor.               *)
C30_Witness ==
    /\ GeneratedRooms
    /\ \E c \in Cells(pre) :
          /\ is_part_of_room(Cell(pre, c[1], c[2]))
          /\ NeighbourInGrid(pre, c[1], c[2], DIR_SOUTH)
          /\ Wall(maze, c[1], c[2], DIR_SOUTH)
          /\ ~CellCarved(pre, <<c[1], c[2] + 1>>)
          /\ Cell(maze, c[1], c[2] + 1).id = ID_MAZE_PATH

----------------------------------------------------------------------------
\* The rooms that fit the grid m: origin and size inside it.
FittingRooms(m) ==
    {r \in [x_pos : 0..(m.cols - 1), y_pos : 0..(m.rows - 1),
            x_size : 1..MaxRoomSize, y_size : 1..MaxRoomSize] :
        r.x_pos + r.x_size <= m.cols /\ r.y_pos + r.y_size <= m.rows}

(* C31: every carve issued during generation succeeds, so the unwrap on    *)
(* its result never aborts.  Whenever pick_direction reports a direction   *)
(* at the carver's current cell (the origin before the first step, the     *)
(* current cell in the loop), that cell and its neighbour in that          *)
(* direction are inside the grid and the carve returns Ok; and carve_room  *)
(* succeeds for every room that fits the grid.                             *)
C31_CarvesSucceed ==
    /\ last.msg # "unwrap"
    /\ last.msg = "carve aborted" =>
          \A r \in FittingRooms(maze) :
              r.x_pos # mk.sample.x_pos \/ r.y_pos # mk.sample.y_pos
              \/ r.x_size # mk.sample.x_size \/ r.y_size # mk.sample.y_size
    /\ pc = "rooms" =>
          \A r \in FittingRooms(maze) :
              carve_room(maze, r.x_pos, r.y_pos, r.x_size, r.y_size,
                         mk.id).status = "ok"
    /\ pc \in {"placed", "loop"} =>
          LET cur == IF pc = "loop" THEN cur_coord ELSE [x |-> 0, y |-> 0] IN
          /\ InGrid(maze, cur.x, cur.y)
          /\ \A p \in pick_direction(maze, cur.x, cur.y) :
                p.result = TRUE =>
                    /\ NeighbourInGrid(maze, cur.x, cur.y, p.dir)
                    /\ carve(maze, cur.x, cur.y, p.dir, ID_MAZE_PATH,
                             FALSE).status = "ok"

(* The loop stands at the last cell of the grid, beside a placed room,     *)
(* after three carves, and pick_direction still has a direction to report. *)
C31_Witness ==
    /\ pc = "loop"
    /\ last.op = "generate"
    /\ Len(mk.rooms) >= 1
    /\ count.carves >= 3
    /\ cur_coord.x = maze.cols - 1
    /\ cur_coord.y = maze.rows - 1
    /\ pick_candidates(maze, cur_coord.x, cur_coord.y) # <<>>

----------------------------------------------------------------------------
\* The stack from its bottom to its top, then the current cell.
StackPath == Append(visited, cur_coord)

\* Coordinates a and b are grid neighbours with the wall between them
\* broken on both sides.
Joined(m, a, b) ==
    \E d \in Dirs :
        /\ Neighbour(a.x, a.y, d) = <<b.x, b.y>>
        /\ ~Wall(m, a.x, a.y, d)
        /\ ~Wall(m, b.x, b.y, Opposite(d))

SimplePath ==
    pc = "loop" =>
        /\ \A i \in 1..Len(StackPath) :
              InGrid(maze, StackPath[i].x, StackPath[i].y)
        /\ StackPath[1] = [x |-> last.x, y |-> last.y]
        /\ \A i \in 1..(Len(StackPath) - 1) :
              Joined(maze, StackPath[i], StackPath[i + 1])
        /\ \A i, j \in 1..Len(StackPath) :
              i # j => StackPath[i] # StackPath[j]

LastInFirstOut ==
    pc = "loop" =>
        /\ Len(visited') < Len(visited) =>
              /\ cur_coord' = visited[Len(visited)]
              /\ visited' = SubSeq(visited, 1, Len(visited) - 1)
        /\ Len(visited') > Len(visited) =>
              visited' = Append(visited, cur_coord)

(* C32: in every state of the generation loop the backtracking stack       *)
(* followed by the current cell is a simple path from the origin: its      *)
(* first coordinate is the origin, consecutive coordinates are grid        *)
(* neighbours joined by a broken wall, no coordinate appears twice, every  *)
(* coordinate is inside the grid; and a pop returns the most recently      *)
(* pushed coordinate.                                                      *)
C32_StackIsPath == []SimplePath /\ [][LastInFirstOut]_vars

(* After a pop the stack still holds three coordinates, on a grid whose    *)
(* origin is not (0, 0).                                                   *)
C32_Witness ==
    /\ pc = "loop"
    /\ Len(visited) >= 3
    /\ count.pops >= 1
    /\ last.x > 0

----------------------------------------------------------------------------
(* C33: the outer border of the maze is never opened.  In every state      *)
(* reached from new by carve, room placement and generation, every cell of *)
(* row 0 has its north wall, every cell of the last row its south wall,    *)
(* every cell of column 0 its west wall and every cell of the last column  *)
(* its east wall.                                                          *)
C33_BorderClosed ==
    \A c \in Cells(maze) :
        /\ c[2] = 0 => Wall(maze, c[1], c[2], DIR_NORTH)
        /\ c[2] = maze.rows - 1 => Wall(maze, c[1], c[2], DIR_SOUTH)
        /\ c[1] = 0 => Wall(maze, c[1], c[2], DIR_WEST)
        /\ c[1] = maze.cols - 1 => Wall(maze, c[1], c[2], DIR_EAST)

(* After a generation with a placed room, the caller asks carve for the    *)
(* north wall of the origin and is refused.                                *)
C33_Witness ==
    /\ Len(mk.rooms) >= 1
    /\ count.carves >= 3
    /\ last.op = "carve"
    /\ last.x = 0 /\ last.y = 0 /\ last.dir = DIR_NORTH
    /\ last.status = "err"

----------------------------------------------------------------------------
(* C34: shared walls stay consistent.  In every state reached from new by  *)
(* carve, room placement and generation, for every two grid neighbours the *)
(* wall flag of the one facing the other equals the opposite flag of the   *)
(* other: a passage is open from both sides or from neither.               *)
C34_SharedWalls ==
    \A x \in 0..(maze.cols - 1), y \in 0..(maze.rows - 1) :
        /\ x + 1 < maze.cols =>
              Wall(maze, x, y, DIR_EAST) = Wall(maze, x + 1, y, DIR_WEST)
        /\ y + 1 < maze.rows =>
              Wall(maze, x, y, DIR_SOUTH) = Wall(maze, x, y + 1, DIR_NORTH)

(* After a generation that placed a room the caller carved one more wall,  *)
(* south of cell (1, 0), and carve returned Ok.                            *)
C34_Witness ==
    /\ Len(mk.rooms) >= 1
    /\ count.carves >= 3
    /\ last.op = "carve"
    /\ last.x = 1 /\ last.y = 0 /\ last.dir = DIR_SOUTH
    /\ last.status = "ok"
    /\ Wall(pre, 1, 0, DIR_SOUTH)

----------------------------------------------------------------------------
\* The directions pick_direction chooses from at (x, y), as a set.
CandidateSet(m, x, y) ==
    LET directions == pick_candidates(m, x, y) IN
    {directions[i] : i \in 1..Len(directions)}

\* One step of the grid: no absent wall comes back, no uncarved cell
\* appears, no cell gains a candidate.
WallsOnlyRemoved ==
    maze' # maze =>
        \A c \in Cells(maze) :
            /\ \A d \in Dirs :
                  ~Wall(maze, c[1], c[2], d) => ~Wall(maze', c[1], c[2], d)
            /\ CellCarved(maze, c) => CellCarved(maze', c)
            /\ CandidateSet(maze', c[1], c[2])
                  \subseteq CandidateSet(maze, c[1], c[2])

(* C35: walls are only ever removed by grid operations.  Across any        *)
(* sequence of carve, room placement and generation steps a wall flag that *)
(* is absent never becomes present again, so a carved cell stays carved    *)
(* and the candidate set of every cell only shrinks.                       *)
C35_WallsOnlyRemoved == [][WallsOnlyRemoved]_vars

(* After a generation the caller carved a wall that was already broken,    *)
(* with another id: carve returned Ok and no wall came back.               *)
C35_Witness ==
    /\ count.carves >= 3
    /\ last.op = "carve"
    /\ last.status = "ok"
    /\ ~Wall(pre, last.x, last.y, last.dir)
    /\ maze # pre
    /\ \A c \in Cells(maze) :
          Cell(maze, c[1], c[2]).wall_present =
              Cell(pre, c[1], c[2]).wall_present

----------------------------------------------------------------------------
(* C36: during generate and generate_perfect, which carve with carve_out   *)
(* false and an id other than 0, carved and tagged coincide in every       *)
(* state: a cell has at least one wall absent iff its id is not            *)
(* ID_UNCARVED, and a cell is part of a room only if it is carved.         *)
C36_CarvedIffTagged ==
    \A c \in Cells(maze) :
        LET s == Cell(maze, c[1], c[2]) IN
        /\ is_carved(s) = TRUE <=> s.id # ID_UNCARVED
        /\ is_part_of_room(s) => is_carved(s) = TRUE

(* The carver is in its loop beside a tagged room: a room cell with its    *)
(* east wall broken, a corridor cell, and a cell still untouched with id   *)
(* 0.                                                                      *)
C36_Witness ==
    /\ pc = "loop"
    /\ last.op = "generate"
    /\ \E c \in Cells(maze) :
          /\ is_part_of_room(Cell(maze, c[1], c[2]))
          /\ ~Wall(maze, c[1], c[2], DIR_EAST)
    /\ \E c \in Cells(maze) :
          /\ Cell(maze, c[1], c[2]).id = ID_MAZE_PATH
          /\ is_carved(Cell(maze, c[1], c[2])) = TRUE
    /\ \E c \in Cells(maze) :
          /\ Cell(maze, c[1], c[2]).id = ID_UNCARVED
          /\ is_carved(Cell(maze, c[1], c[2])) = FALSE

----------------------------------------------------------------------------
(* C37: the renderer never reads a cell outside the grid and never changes *)
(* the grid.  In every state reached from new by carve, room placement and *)
(* generation, wherever print would read the cell at offset y * cols + x + *)
(* 1, which it does only when cell (x, y) has its south wall absent, that  *)
(* offset is below rows * cols; every call of print returns, and after it  *)
(* every wall flag and id is as before.                                    *)
C37_PrintReadsInside ==
    /\ \A c \in Cells(maze) :
          ~Wall(maze, c[1], c[2], DIR_SOUTH) =>
              c[2] * maze.cols + c[1] + 1 < maze.rows * maze.cols
    /\ last.op = "print" => (last.status = "ok" /\ maze = pre)

(* print has returned on a generated grid with a room where a cell of the  *)
(* last column has its south wall absent, so that the cell read after it   *)
(* is the first of the next row.                                           *)
C37_Witness ==
    /\ last.op = "print"
    /\ last.status = "ok"
    /\ Len(mk.rooms) >= 1
    /\ count.carves >= 3
    /\ ~Wall(maze, maze.cols - 1, 0, DIR_SOUTH)
    /\ Len(last.out) = 1 + 2 * maze.rows

====
